---- MODULE Spec2Model ----
(***************************************************************************)
(* Model of the DDoS traceback simulator: the node-sampling page callback  *)
(* (pages/node_sampling.py update_output), the simulation engine           *)
(* (simul_utils.py simulate_transmissions) and the node-sampling path      *)
(* reconstruction (graph_utils.py rebuild_node_sampling_paths).            *)
(*                                                                         *)
(* Probabilities and uniform draws are scaled integers: a value v stands   *)
(* for v / PScale, so p ranges over 0..PScale and a draw of                *)
(* random.random() (in [0,1)) over 0..PScale-1.                            *)
(***************************************************************************)
EXTENDS Integers, Sequences, FiniteSets, TLC

\* ------------------------------------------------------------------ bounds

\* Largest value of the "Packets to send" slider that the model explores.
MaxPackets == 2

\* Largest number of entries selected in the attackers dropdown.
MaxAttackers == 2

\* Resolution of probabilities: p = k / PScale, draws = k / PScale < 1.
PScale == 2

\* Largest times_marked value of the graphs handed to the reconstruction
\* when it is run on its own.
MaxMark == 2

\* Python's None (node ids are non-negative integers).
None == 0 - 1

\* ------------------------------------------------------------- topologies
\* A graph is its adjacency: node -> neighbours in insertion order, as
\* networkx keeps them.  Nodes are 0..n-1 as nx.watts_strogatz_graph makes
\* them, enumerated in ascending order.

\* The path graph 0-1-2-3.
Path4 == (0 :> <<1>>) @@ (1 :> <<0, 2>>) @@ (2 :> <<1, 3>>) @@ (3 :> <<2>>)

\* watts_strogatz_graph(5, 2, p) with no edge rewired: the ring.
Ring5 ==
    (0 :> <<1, 4>>) @@ (1 :> <<0, 2>>) @@ (2 :> <<1, 3>>) @@ (3 :> <<2, 4>>)
        @@ (4 :> <<3, 0>>)

\* watts_strogatz_graph(5, 2, p) with edge (1,2) rewired to (1,3).
Rewired5 ==
    (0 :> <<1, 4>>) @@ (1 :> <<0, 3>>) @@ (2 :> <<3>>) @@ (3 :> <<2, 4, 1>>)
        @@ (4 :> <<3, 0>>)

Topologies == {Path4, Ring5, Rewired5}

\* watts_strogatz_graph(6, 2, .) after the rewirings 2-3 to 2-0 and 5-0 to
\* 5-3: two triangles. update_global_state stores a graph before it tests
\* nx.is_connected, and simulate_transmissions takes any graph.
Split6 ==
    (0 :> <<1, 2>>) @@ (1 :> <<0, 2>>) @@ (2 :> <<1, 0>>) @@ (3 :> <<4, 5>>)
        @@ (4 :> <<3, 5>>) @@ (5 :> <<4, 3>>)

AllTopologies == Topologies \cup {Split6}

NodesOf(G) == DOMAIN G

\* graph.nodes(): the nodes in insertion order.
NodeList(G) == [i \in 1..Cardinality(DOMAIN G) |-> i - 1]

\* graph.edges: the undirected edges, each an unordered pair.
EdgesOf(G) == UNION {{{u, G[u][k]} : k \in 1..Len(G[u])} : u \in DOMAIN G}

\* ---------------------------------------------------------- shortest path
\* nx.shortest_path(graph, source, target) with no weight is networkx's
\* bidirectional breadth-first search: the two fringes grow in turn, the
\* smaller first, each scanning neighbours in adjacency order, and the
\* search stops at the first node seen from both sides.

\* The (v, w) pairs one level scans, in scan order.
RECURSIVE LevelPairs(_, _, _, _)
LevelPairs(G, level, i, k) ==
    IF i > Len(level) THEN <<>>
    ELSE IF k > Len(G[level[i]]) THEN LevelPairs(G, level, i + 1, 1)
    ELSE <<<<level[i], G[level[i]][k]>>>> \o LevelPairs(G, level, i, k + 1)

\* Scan one level: `mine` is the side's own tree (pred or succ), `other`
\* the opposite side's tree.
RECURSIVE ScanLevel(_, _, _, _, _)
ScanLevel(pairs, i, mine, other, fringe) ==
    IF i > Len(pairs) THEN [found |-> None, tree |-> mine, fringe |-> fringe]
    ELSE LET v == pairs[i][1]
             w == pairs[i][2]
             fresh == w \notin DOMAIN mine
             mine2 == IF fresh THEN mine @@ (w :> v) ELSE mine
             fringe2 == IF fresh THEN Append(fringe, w) ELSE fringe
         IN  IF w \in DOMAIN other
             THEN [found |-> w, tree |-> mine2, fringe |-> fringe2]
             ELSE ScanLevel(pairs, i + 1, mine2, other, fringe2)

\* _bidirectional_pred_succ: [w, pred, succ], w = None when no path exists.
RECURSIVE BiSearch(_, _, _, _, _)
BiSearch(G, pred, succ, forward_fringe, reverse_fringe) ==
    IF forward_fringe = <<>> \/ reverse_fringe = <<>>
    THEN [w |-> None, pred |-> pred, succ |-> succ]
    ELSE IF Len(forward_fringe) <= Len(reverse_fringe)
    THEN LET r == ScanLevel(LevelPairs(G, forward_fringe, 1, 1), 1, pred, succ, <<>>)
         IN  IF r.found # None
             THEN [w |-> r.found, pred |-> r.tree, succ |-> succ]
             ELSE BiSearch(G, r.tree, succ, r.fringe, reverse_fringe)
    ELSE LET r == ScanLevel(LevelPairs(G, reverse_fringe, 1, 1), 1, succ, pred, <<>>)
         IN  IF r.found # None
             THEN [w |-> r.found, pred |-> pred, succ |-> r.tree]
             ELSE BiSearch(G, pred, r.tree, forward_fringe, r.fringe)

\* Follow a tree from w to its root: w, tree[w], tree[tree[w]], ...
RECURSIVE Chain(_, _)
Chain(tree, w) == IF w = None THEN <<>> ELSE <<w>> \o Chain(tree, tree[w])

Reverse(s) == [i \in 1..Len(s) |-> s[Len(s) + 1 - i]]

\* Variant: the path runs from the target to the source.
shortest_path_backwards(G, source, target) ==
    IF source = target THEN <<source>>
    ELSE LET r == BiSearch(G, (target :> None), (source :> None),
                           <<target>>, <<source>>)
         IN  IF r.w = None THEN <<>>
             ELSE Reverse(Chain(r.pred, r.w)) \o Chain(r.succ, r.succ[r.w])

\* The path as a sequence of nodes from source to target; <<>> when the
\* target cannot be reached (networkx raises NetworkXNoPath).
shortest_path(G, source, target) ==
    IF source = target THEN <<source>>
    ELSE LET r == BiSearch(G, (source :> None), (target :> None),
                           <<source>>, <<target>>)
         IN  IF r.w = None THEN <<>>
             ELSE Reverse(Chain(r.pred, r.w)) \o Chain(r.succ, r.succ[r.w])

\* ------------------------------------------------------------ conversions
\* The dropdown's option values are the strings str(i); update_output casts
\* them back with int(x).
Digits == <<"0", "1", "2", "3", "4", "5", "6", "7", "8", "9">>

PyStr(i) == Digits[i + 1]

PyInt(s) == CHOOSE i \in 0..(Len(Digits) - 1) : Digits[i + 1] = s

\* list.remove(x): drops the first occurrence of x.
RECURSIVE ListRemove(_, _)
ListRemove(s, x) ==
    IF s = <<>> THEN <<>>
    ELSE IF Head(s) = x THEN Tail(s)
    ELSE <<Head(s)>> \o ListRemove(Tail(s), x)

Range(s) == {s[i] : i \in 1..Len(s)}

\* max(0, min(p, 1)) on the scaled probability.
Min(a, b) == IF a <= b THEN a ELSE b

Max(a, b) == IF a >= b THEN a ELSE b

\* Variant: min and max change places, which leaves 0 for every p.
ClampSwapped(q) == Min(0, Max(q, PScale))

Clamp(q) == Max(0, Min(q, PScale))

\* nx.spring_layout: one position per node of the graph.
Layout(G) == [n \in NodesOf(G) |-> <<10 + n, 20 + n>>]

\* ------------------------------------------------------------------ state
VARIABLES
    GRAPH,                \* global_state.GRAPH: the active topology
    POSITIONS,            \* global_state.POSITIONS
    pc,                   \* where the callback stands
    target_node,          \* the victim
    attacking_nodes,      \* the list handed to simulate_transmissions
    p,                    \* the clamped marking probability
    num_packets,
    graph,                \* the working copy's structure
    times_used,           \* graph.nodes[n]["times_used"]
    edge_used,            \* graph.edges[u, v]["times_used"]
    times_marked,         \* graph.nodes[n]["times_marked"]
    nappend_overhead,
    intermediate_routers,
    packets_done,         \* iterations of the packet loop completed
    attacker_node,
    path,
    idx,                  \* position of the walk in path (1-based)
    saved_router,
    draws,                \* the values of random.random() in this packet
    chosen,               \* how often random.choice returned each node
    result,               \* <<SimulationResult>> once returned, <<>> before
    error,                \* the exception that ended the callback
    ordered_nodes,        \* the reconstructed chain
    edge_x,
    edge_y,
    p_in,                 \* the p the request carries, before the clamp
    scheme,               \* the page whose callback runs
    passed_ref,           \* the graph object the callback passes in
    graph_ref,            \* the graph object the simulation works on
    caller_graph,         \* the attributes held by the object passed in
    fig,                  \* the figure handed to the reconstruction
    fig_2,                \* the figure the reconstruction returns
    other,                \* a second call that is under way
    regen                 \* update_global_state in another callback: its
                          \* position and its argument n

page == <<GRAPH, POSITIONS, p_in, scheme, regen>>

simvars == <<target_node, attacking_nodes, p, num_packets, graph, passed_ref,
             graph_ref>>

counters == <<times_used, edge_used, times_marked, nappend_overhead,
              intermediate_routers>>

pktvars == <<attacker_node, path, idx, saved_router, draws>>

outvars == <<result, error, ordered_nodes, edge_x, edge_y, fig, fig_2>>

vars == <<page, pc, simvars, counters, packets_done, pktvars, chosen,
          outvars, caller_graph, other>>

\* The values the attackers dropdown can hold: lists of distinct options of
\* at most MaxAttackers entries, enumerated here in option order (the order
\* of selection changes nothing random.choice can return).
DropdownValues(G) ==
    {s \in UNION {[1..k -> {PyStr(n) : n \in NodesOf(G)}] : k \in 0..MaxAttackers} :
        \A i, j \in 1..Len(s) : i < j => PyInt(s[i]) < PyInt(s[j])}

\* Values of p the model feeds in, some outside [0, 1].
PValues == (0 - 1)..(PScale + 1)

\* ------------------------------------------------------------------ objects
\* Graph.copy() returns a new object.
\* Variant: it returns the object it was called on.
GraphCopyAlias(source, fresh) == source

GraphCopy(source, fresh) == fresh

\* initialize_graph annotates a copy of the graph it is given.
\* Variant: it annotates the graph it is given.
WorkingObjectInPlace(passed, fresh) == passed

WorkingObject(passed, fresh) == GraphCopy(passed, fresh)

\* copy.deepcopy(fig) returns a new figure.
\* Variant: it returns the figure it was given.
DeepCopyAlias(source, fresh) == source

DeepCopy(source, fresh) == fresh

\* What the object the callback passed in holds once the working object
\* holds the given attributes: the same, if they are one object.
Held(working, passed, held, used, edges, marks) ==
    IF working = passed
    THEN <<[times_used |-> used, edge_used |-> edges, times_marked |-> marks]>>
    ELSE held

\* global_state.FIGURE: the edge trace and the node trace, both shown.
FIGURE == [color |-> "role", edge_visible |-> TRUE,
           traces |-> <<"edge_trace", "node_trace">>]

\* color_nodes_by_property recolours the node trace of the figure it is given.
color_nodes_by_property(figure, property) == [figure EXCEPT !.color = property]

\* No second call is under way.
NoCall ==
    [pc |-> "none", ref |-> "none", target_node |-> None,
     attacking_nodes |-> <<>>, attacker_node |-> None,
     path |-> <<>>, idx |-> 0, saved_router |-> None, times_used |-> <<>>,
     edge_used |-> <<>>, times_marked |-> <<>>]

\* What the second call's working object holds once this call's working
\* object holds the given attributes: the same, if they are one object.
Through(o, working, used, edges, marks) ==
    IF o.pc # "none" /\ o.ref = working
    THEN [o EXCEPT !.times_used = used, !.edge_used = edges, !.times_marked = marks]
    ELSE o

\* update_global_state is not running.
NoRegen == [pc |-> "none", n |-> 0]

\* The p slider of the page: 0 to 1.
SliderValues == 0..PScale

\* The callback's locals while no request is being served.
NoRequest ==
    /\ target_node = None
    /\ attacking_nodes = <<>>
    /\ p = 0
    /\ num_packets = 0
    /\ graph = GRAPH
    /\ times_used = [n \in NodesOf(GRAPH) |-> 0]
    /\ edge_used = [e \in EdgesOf(GRAPH) |-> 0]
    /\ times_marked = [n \in NodesOf(GRAPH) |-> 0]
    /\ nappend_overhead = 0
    /\ intermediate_routers = 0
    /\ packets_done = 0
    /\ attacker_node = None
    /\ path = <<>>
    /\ idx = 0
    /\ saved_router = None
    /\ draws = <<>>
    /\ chosen = [n \in NodesOf(GRAPH) |-> 0]
    /\ result = <<>>
    /\ error = "none"
    /\ ordered_nodes = <<>>
    /\ edge_x = <<>>
    /\ edge_y = <<>>
    /\ passed_ref = "none"
    /\ graph_ref = "none"
    /\ caller_graph = <<>>
    /\ fig = FIGURE
    /\ fig_2 = FIGURE
    /\ other = NoCall
    /\ regen = NoRegen

\* The node sampling page is open on a connected topology.
Init ==
    /\ GRAPH \in Topologies
    /\ POSITIONS = Layout(GRAPH)
    /\ p_in \in SliderValues
    /\ scheme = "nsample"
    /\ pc = "idle"
    /\ NoRequest

\* ------------------------------------------------------------- update_output
\* The attackers the callback passes on: the default when none is selected,
\* cast to integers, the victim removed.
DefaultAttackers == <<"0", "1">>

CastAttackers(attackers) == [i \in 1..Len(attackers) |-> PyInt(attackers[i])]

\* The p the page's callback passes on: the node append page passes 1, the
\* other pages the slider's value.
PassedP(page_name, slider) == IF page_name = "nappend" THEN PScale ELSE slider

\* Variant: the victim is left in the list.
PrepareAttackersKeepVictim(victim_node, attackers) ==
    CastAttackers(IF attackers = <<>> THEN DefaultAttackers ELSE attackers)

PrepareAttackers(victim_node, attackers) ==
    LET chosen_or_default == IF attackers = <<>> THEN DefaultAttackers ELSE attackers
        ints == CastAttackers(chosen_or_default)
    IN  IF victim_node \in Range(ints) THEN ListRemove(ints, victim_node) ELSE ints

\* initialize_graph: a copy of the graph with every counter set to 0.
initialize_graph(G) ==
    [structure |-> G,
     times_used |-> [n \in NodesOf(G) |-> 0],
     edge_used |-> [e \in EdgesOf(G) |-> 0],
     times_marked |-> [n \in NodesOf(G) |-> 0]]

\* The callback starts: it prepares the attackers, copies the global graph
\* and enters simulate_transmissions up to the head of the packet loop.
UpdateOutput ==
    /\ pc = "idle"
    /\ \E victim_node \in NodesOf(GRAPH), attackers \in DropdownValues(GRAPH),
          packets \in 0..MaxPackets :
        LET G == initialize_graph(GRAPH) IN
        /\ target_node' = victim_node
        /\ attacking_nodes' = PrepareAttackers(victim_node, attackers)
        /\ p' = Clamp(PassedP(scheme, p_in))
        /\ passed_ref' = GraphCopy("GRAPH", "callback")
        /\ graph_ref' = WorkingObject(passed_ref', "working")
        /\ caller_graph' = Held(graph_ref', passed_ref', <<>>, G.times_used,
                                G.edge_used, G.times_marked)
        /\ num_packets' = packets
        /\ graph' = G.structure
        /\ times_used' = G.times_used
        /\ edge_used' = G.edge_used
        /\ times_marked' = G.times_marked
    /\ nappend_overhead' = 0
    /\ intermediate_routers' = 0
    /\ packets_done' = 0
    /\ attacker_node' = None
    /\ path' = <<>>
    /\ idx' = 0
    /\ saved_router' = None
    /\ draws' = <<>>
    /\ chosen' = [n \in NodesOf(GRAPH) |-> 0]
    /\ result' = <<>>
    /\ error' = "none"
    /\ ordered_nodes' = <<>>
    /\ edge_x' = <<>>
    /\ edge_y' = <<>>
    /\ fig' = FIGURE
    /\ fig_2' = FIGURE
    /\ other' = Through(other, graph_ref', times_used', edge_used', times_marked')
    /\ pc' = "loop"
    /\ UNCHANGED page

\* ---------------------------------------------------- simulate_transmissions
\* for _ in range(num_packets): another iteration follows `done` iterations.
\* Variant: the loop ends one iteration early.
LoopStopsEarly(done, n) == done + 1 < n

\* Variant: the loop runs one iteration more.
LoopContinuesOnceMore(done, n) == done <= n

LoopContinues(done, n) == done < n

\* random.choice on an empty list raises IndexError: the callback ends.
ChooseFromEmpty ==
    /\ pc = "loop"
    /\ LoopContinues(packets_done, num_packets)
    /\ attacking_nodes = <<>>
    /\ error' = "IndexError"
    /\ pc' = "error"
    /\ UNCHANGED <<page, other, simvars, counters, packets_done, pktvars,
                   chosen, result, ordered_nodes, edge_x, edge_y, fig, fig_2,
                   caller_graph>>

\* saved_router = None at the start of each packet.
\* Variant: the candidate of the previous packet is kept.
StaleSavedRouter(previous) == previous

FreshSavedRouter(previous) == None

\* graph.nodes[attacker_node]["times_used"] += 1, ahead of the walk.
\* Variant: the attacker is counted by the walk alone.
CountAttackerInWalkOnly(used, a) == used

CountAttacker(used, a) == [used EXCEPT ![a] = @ + 1]

\* A packet trial starts: pick the attacker, compute its path to the victim
\* and count the attacker once.
ChooseAttacker ==
    /\ pc = "loop"
    /\ LoopContinues(packets_done, num_packets)
    /\ \E i \in 1..Len(attacking_nodes) :
        LET a == attacking_nodes[i]
            route == shortest_path(graph, a, target_node)
        IN  /\ route # <<>>
            /\ attacker_node' = a
            /\ path' = route
            /\ times_used' = CountAttacker(times_used, a)
            /\ chosen' = [chosen EXCEPT ![a] = @ + 1]
    /\ caller_graph' = Held(graph_ref, passed_ref, caller_graph, times_used',
                            edge_used, times_marked)
    /\ saved_router' = FreshSavedRouter(saved_router)
    /\ idx' = 1
    /\ draws' = <<>>
    /\ pc' = "walk"
    /\ other' = Through(other, graph_ref, times_used', edge_used, times_marked)
    /\ UNCHANGED <<page, simvars, edge_used, times_marked, nappend_overhead,
                   intermediate_routers, packets_done, outvars>>

\* if x < p: saved_router = node
\* Variants: a draw equal to p passes; the first passing node is kept.
CandidateAtOrBelow(x, q, node, saved) == IF x <= q THEN node ELSE saved

CandidateFirstWins(x, q, node, saved) ==
    IF x < q /\ saved = None THEN node ELSE saved

Candidate(x, q, node, saved) == IF x < q THEN node ELSE saved

\* graph.edges[node, path[i + 1]]["times_used"] += 1 on the undirected edge.
\* Variant: the edge is counted once for each of its two directions.
CountEdgeBothWays(edges, u, v) == [edges EXCEPT ![{u, v}] = @ + 2]

CountEdge(edges, u, v) == [edges EXCEPT ![{u, v}] = @ + 1]

\* nappend_overhead += 4 for the node at (1-based) position i of the path.
\* Variant: the attacker, first on the path, is not taken for a router.
AddOverheadRoutersOnly(overhead, i) == IF i = 1 THEN overhead ELSE overhead + 4

AddOverhead(overhead, i) == overhead + 4

\* What an unreachable victim does to the run: nx.shortest_path raises and
\* nothing catches it.
\* Variant: the packet is skipped and the loop goes on.
OnNoPathSkip(done) == [pc |-> "loop", packets_done |-> done + 1, error |-> "none"]

OnNoPath(done) == [pc |-> "error", packets_done |-> done, error |-> "NetworkXNoPath"]

\* The attacker chosen has no path to the victim.
RaiseNoPath ==
    /\ pc = "loop"
    /\ LoopContinues(packets_done, num_packets)
    /\ \E i \in 1..Len(attacking_nodes) :
        LET a == attacking_nodes[i] IN
        /\ shortest_path(graph, a, target_node) = <<>>
        /\ attacker_node' = a
        /\ chosen' = [chosen EXCEPT ![a] = @ + 1]
    /\ pc' = OnNoPath(packets_done).pc
    /\ packets_done' = OnNoPath(packets_done).packets_done
    /\ error' = OnNoPath(packets_done).error
    /\ UNCHANGED <<page, other, simvars, counters, path, idx, saved_router,
                   draws, result, ordered_nodes, edge_x, edge_y, fig, fig_2,
                   caller_graph>>

\* One iteration of the walk over path[0:-1]: count the node and the edge to
\* the next node, draw, and keep the node as the candidate if the draw is
\* below p.
WalkStep ==
    /\ pc = "walk"
    /\ idx < Len(path)
    /\ \E x \in 0..(PScale - 1) :
        LET node == path[idx] IN
        /\ times_used' = [times_used EXCEPT ![node] = @ + 1]
        /\ edge_used' = CountEdge(edge_used, path[idx], path[idx + 1])
        /\ intermediate_routers' = intermediate_routers + 1
        /\ saved_router' = Candidate(x, p, node, saved_router)
        /\ draws' = Append(draws, x)
        /\ nappend_overhead' = AddOverhead(nappend_overhead, idx)
    /\ idx' = idx + 1
    /\ caller_graph' = Held(graph_ref, passed_ref, caller_graph, times_used',
                            edge_used', times_marked)
    /\ other' = Through(other, graph_ref, times_used', edge_used', times_marked)
    /\ UNCHANGED <<page, pc, simvars, times_marked, packets_done,
                   attacker_node, path, chosen, outvars>>

\* if saved_router is not None: graph.nodes[saved_router]["times_marked"] += 1
\* Variant: `if saved_router:`, which takes node 0 for no router.
MarkSavedTruthy(marks, saved) ==
    IF saved # None /\ saved # 0 THEN [marks EXCEPT ![saved] = @ + 1] ELSE marks

\* Variant: the mark is worth two.
MarkSavedTwice(marks, saved) ==
    IF saved # None THEN [marks EXCEPT ![saved] = @ + 2] ELSE marks

MarkSaved(marks, saved) ==
    IF saved # None THEN [marks EXCEPT ![saved] = @ + 1] ELSE marks

\* The walk is over: the victim receives the packet and the saved router, if
\* any, is marked once.
EndPacket ==
    /\ pc = "walk"
    /\ idx >= Len(path)
    /\ times_marked' = MarkSaved(times_marked, saved_router)
    /\ packets_done' = packets_done + 1
    /\ caller_graph' = Held(graph_ref, passed_ref, caller_graph, times_used,
                            edge_used, times_marked')
    /\ other' = Through(other, graph_ref, times_used, edge_used, times_marked')
    /\ pc' = "loop"
    /\ UNCHANGED <<page, simvars, times_used, edge_used,
                   nappend_overhead, intermediate_routers, pktvars, chosen,
                   outvars>>

\* Variant: the two per-packet costs are swapped.
SimulationResultSwapped(packets_sent, routers, nappend) ==
    [packets_sent |-> packets_sent,
     intermediate_routers |-> routers,
     nappend_overhead |-> nappend,
     nsample_overhead |-> packets_sent * 9,
     esample_overhead |-> packets_sent * 4]

\* The SimulationResult; its graph is the working graph itself.
SimulationResult(packets_sent, routers, nappend) ==
    [packets_sent |-> packets_sent,
     intermediate_routers |-> routers,
     nappend_overhead |-> nappend,
     nsample_overhead |-> packets_sent * 4,
     esample_overhead |-> packets_sent * 9]

\* The colouring the page gives the figure it hands to its reconstruction.
PageColouring(page_name) == IF page_name = "nappend" THEN "role" ELSE "times_marked"

\* The packet loop is exhausted: simulate_transmissions returns and the
\* callback colours its figures.
Return ==
    /\ pc = "loop"
    /\ ~LoopContinues(packets_done, num_packets)
    /\ result' = <<SimulationResult(num_packets, intermediate_routers,
                                    nappend_overhead)>>
    /\ fig' = color_nodes_by_property(fig, PageColouring(scheme))
    /\ pc' = "returned"
    /\ UNCHANGED <<page, other, simvars, counters, packets_done, pktvars,
                   chosen, error, ordered_nodes, edge_x, edge_y, fig_2,
                   caller_graph>>

\* ------------------------------------------------ rebuild_node_sampling_paths
\* counts: the nodes with a non-zero times_marked, in graph.nodes() order.
RECURSIVE MarkedNodes(_, _)
MarkedNodes(nodes, marks) ==
    IF nodes = <<>> THEN <<>>
    ELSE (IF marks[Head(nodes)] # 0 THEN <<Head(nodes)>> ELSE <<>>)
             \o MarkedNodes(Tail(nodes), marks)

\* Variant: k goes before the keys of equal value (ties come out reversed).
RECURSIVE InsertBeforeEqual(_, _, _)
InsertBeforeEqual(sorted, k, marks) ==
    IF sorted = <<>> THEN <<k>>
    ELSE IF marks[Head(sorted)] < marks[k]
    THEN <<Head(sorted)>> \o InsertBeforeEqual(Tail(sorted), k, marks)
    ELSE <<k>> \o sorted

\* Insert k after every key whose value is not greater (keeps ties in order).
RECURSIVE InsertByValue(_, _, _)
InsertByValue(sorted, k, marks) ==
    IF sorted = <<>> THEN <<k>>
    ELSE IF marks[Head(sorted)] <= marks[k]
    THEN <<Head(sorted)>> \o InsertByValue(Tail(sorted), k, marks)
    ELSE <<k>> \o sorted

\* sorted(counts.items(), key=lambda item: item[1]): stable, ascending.
RECURSIVE SortByValue(_, _)
SortByValue(keys, marks) ==
    IF keys = <<>> THEN <<>>
    ELSE InsertByValue(SortByValue(SubSeq(keys, 1, Len(keys) - 1), marks),
                       keys[Len(keys)], marks)

\* ordered_nodes = list(counts.keys()) + [victim_node]
OrderedNodes(nodes, marks, victim_node) ==
    SortByValue(MarkedNodes(nodes, marks), marks) \o <<victim_node>>

\* edge_x / edge_y: for each consecutive pair the two coordinates, then None.
RECURSIVE EdgeCoords(_, _, _, _)
EdgeCoords(chain, positions, axis, i) ==
    IF i > Len(chain) - 1 THEN <<>>
    ELSE <<positions[chain[i]][axis], positions[chain[i + 1]][axis], None>>
             \o EdgeCoords(chain, positions, axis, i + 1)

\* The edits made to the copy: the edge trace hidden, the path trace added.
AddPathTrace(figure) ==
    [figure EXCEPT !.edge_visible = FALSE,
                   !.traces = Append(@, "node_sampling_edge_trace")]

\* The callback rebuilds the node-sampling path from the returned graph.
Rebuild ==
    /\ pc = "returned"
    /\ scheme = "nsample"
    /\ LET chain == OrderedNodes(NodeList(graph), times_marked, target_node) IN
        /\ Range(chain) \subseteq DOMAIN POSITIONS
        /\ ordered_nodes' = chain
        /\ edge_x' = EdgeCoords(chain, POSITIONS, 1, 1)
        /\ edge_y' = EdgeCoords(chain, POSITIONS, 2, 1)
    /\ LET drawn == AddPathTrace(fig) IN
        /\ fig_2' = drawn
        /\ fig' = IF DeepCopy("fig", "fig_2") = "fig" THEN drawn ELSE fig
    /\ pc' = "rendered"
    /\ UNCHANGED <<page, other, simvars, counters, packets_done, pktvars,
                   chosen, result, error, caller_graph>>

\* The node append and edge sampling callbacks call
\* graph_utils.rebuild_node_append_paths and
\* graph_utils.rebuild_edge_sampling_paths, which graph_utils does not
\* define: the attribute lookup raises.
RebuildMissing ==
    /\ pc = "returned"
    /\ scheme \in {"nappend", "esample"}
    /\ error' = "AttributeError"
    /\ pc' = "error"
    /\ UNCHANGED <<page, other, simvars, counters, packets_done, pktvars,
                   chosen, result, ordered_nodes, edge_x, edge_y, fig, fig_2,
                   caller_graph>>

\* The callback hands its outputs (or its exception) to the server and its
\* locals are gone; the next request may start.
Respond ==
    /\ pc \in {"rendered", "error"}
    /\ pc' = "idle"
    /\ target_node' = None
    /\ attacking_nodes' = <<>>
    /\ p' = 0
    /\ num_packets' = 0
    /\ graph' = GRAPH
    /\ times_used' = [n \in NodesOf(GRAPH) |-> 0]
    /\ edge_used' = [e \in EdgesOf(GRAPH) |-> 0]
    /\ times_marked' = [n \in NodesOf(GRAPH) |-> 0]
    /\ nappend_overhead' = 0
    /\ intermediate_routers' = 0
    /\ packets_done' = 0
    /\ attacker_node' = None
    /\ path' = <<>>
    /\ idx' = 0
    /\ saved_router' = None
    /\ draws' = <<>>
    /\ chosen' = [n \in NodesOf(GRAPH) |-> 0]
    /\ result' = <<>>
    /\ error' = "none"
    /\ ordered_nodes' = <<>>
    /\ edge_x' = <<>>
    /\ edge_y' = <<>>
    /\ passed_ref' = "none"
    /\ graph_ref' = "none"
    /\ caller_graph' = <<>>
    /\ fig' = FIGURE
    /\ fig_2' = FIGURE
    /\ UNCHANGED <<page, other>>

\* ------------------------------------------------------- a second request
\* A step of the second call leaves its working object as in o2; the first
\* call's working object holds the same if the two are one object.
OtherWrites(o2) ==
    /\ other' = o2
    /\ times_used' = IF o2.ref = graph_ref THEN o2.times_used ELSE times_used
    /\ edge_used' = IF o2.ref = graph_ref THEN o2.edge_used ELSE edge_used
    /\ times_marked' = IF o2.ref = graph_ref THEN o2.times_marked ELSE times_marked
    /\ caller_graph' =
           IF o2.ref = graph_ref
           THEN Held(graph_ref, passed_ref, caller_graph, o2.times_used,
                     o2.edge_used, o2.times_marked)
           ELSE caller_graph
    /\ UNCHANGED <<page, pc, simvars, nappend_overhead, intermediate_routers,
                   packets_done, pktvars, chosen, outvars>>

\* The second request's inputs: the two ends of the path topology.
OtherVictims == {0}

OtherAttackers == {3}

\* A second request arrives: its callback copies GRAPH and
\* simulate_transmissions initializes its own copy (one attacker, one
\* packet, p = 1).
OtherStart ==
    /\ other.pc = "none"
    /\ \E victim_node \in OtherVictims, a \in OtherAttackers :
        LET G == initialize_graph(GRAPH) IN
        /\ a # victim_node
        /\ OtherWrites([pc |-> "loop",
                     ref |-> WorkingObject(GraphCopy("GRAPH", "callback2"), "working2"),
                     target_node |-> victim_node,
                     attacking_nodes |-> PrepareAttackers(victim_node, <<PyStr(a)>>),
                     attacker_node |-> None,
                     path |-> <<>>, idx |-> 0, saved_router |-> None,
                     times_used |-> G.times_used, edge_used |-> G.edge_used,
                     times_marked |-> G.times_marked])

\* Its packet starts.
OtherChoose ==
    /\ other.pc = "loop"
    /\ LET a == other.attacking_nodes[1] IN
        OtherWrites([other EXCEPT !.pc = "walk",
                                  !.attacker_node = a,
                                  !.path = shortest_path(GRAPH, a, other.target_node),
                                  !.times_used = CountAttacker(@, a),
                                  !.saved_router = FreshSavedRouter(@),
                                  !.idx = 1])

\* One iteration of its walk; with p = 1 every draw is below p.
OtherWalk ==
    /\ other.pc = "walk"
    /\ other.idx < Len(other.path)
    /\ LET node == other.path[other.idx]
           next == other.path[other.idx + 1]
       IN  OtherWrites([other EXCEPT !.times_used[node] = @ + 1,
                                     !.edge_used[{node, next}] = @ + 1,
                                     !.saved_router = Candidate(0, PScale, node, @),
                                     !.idx = @ + 1])

\* Its walk is over: the saved router is marked and the call returns.
OtherEnd ==
    /\ other.pc = "walk"
    /\ other.idx >= Len(other.path)
    /\ OtherWrites([other EXCEPT !.times_marked = MarkSaved(@, other.saved_router),
                                 !.pc = "done"])

Next ==
    \/ UpdateOutput
    \/ ChooseFromEmpty
    \/ ChooseAttacker
    \/ WalkStep
    \/ EndPacket
    \/ Return
    \/ Rebuild
    \/ Respond

Spec == Init /\ [][Next]_vars

\* The reconstruction on its own: the callback holds a returned working
\* graph whose marks are any values up to MaxMark, the victim unmarked.
InitRebuild ==
    /\ GRAPH \in Topologies
    /\ POSITIONS = Layout(GRAPH)
    /\ p_in = 0
    /\ scheme = "nsample"
    /\ pc = "returned"
    /\ target_node \in NodesOf(GRAPH)
    /\ attacking_nodes = <<>>
    /\ p = 0
    /\ num_packets = 0
    /\ graph = GRAPH
    /\ times_used = [n \in NodesOf(GRAPH) |-> 0]
    /\ edge_used = [e \in EdgesOf(GRAPH) |-> 0]
    /\ times_marked \in {f \in [NodesOf(GRAPH) -> 0..MaxMark] : f[target_node] = 0}
    /\ nappend_overhead = 0
    /\ intermediate_routers = 0
    /\ packets_done = 0
    /\ attacker_node = None
    /\ path = <<>>
    /\ idx = 0
    /\ saved_router = None
    /\ draws = <<>>
    /\ chosen = [n \in NodesOf(GRAPH) |-> 0]
    /\ result = <<>>
    /\ error = "none"
    /\ ordered_nodes = <<>>
    /\ edge_x = <<>>
    /\ edge_y = <<>>
    /\ passed_ref = "callback"
    /\ graph_ref = "working"
    /\ caller_graph = <<>>
    /\ fig = color_nodes_by_property(FIGURE, "times_marked")
    /\ fig_2 = FIGURE
    /\ other = NoCall
    /\ regen = NoRegen

NextRebuild == Rebuild

SpecRebuild == InitRebuild /\ [][NextRebuild]_vars

\* The three pages, each with its own callback.
Schemes == {"nappend", "nsample", "esample"}

InitPages ==
    /\ GRAPH \in Topologies
    /\ POSITIONS = Layout(GRAPH)
    /\ p_in = 1
    /\ scheme \in Schemes
    /\ pc = "idle"
    /\ NoRequest

NextPages ==
    \/ Next
    \/ RebuildMissing

SpecPages == InitPages /\ [][NextPages]_vars

\* Calls whose p lies outside [0, 1].
InitOutOfRange ==
    /\ GRAPH \in Topologies
    /\ POSITIONS = Layout(GRAPH)
    /\ p_in \in PValues \ SliderValues
    /\ scheme = "nsample"
    /\ pc = "idle"
    /\ NoRequest

SpecOutOfRange == InitOutOfRange /\ [][Next]_vars

\* Requests on a topology that is not connected.
InitSplit ==
    /\ GRAPH = Split6
    /\ POSITIONS = Layout(GRAPH)
    /\ p_in \in SliderValues
    /\ scheme = "nsample"
    /\ pc = "idle"
    /\ NoRequest

NextSplit ==
    \/ Next
    \/ RaiseNoPath

SpecSplit == InitSplit /\ [][NextSplit]_vars

\* Two requests at once on the path topology, the first with 0 < p < 1.
InitConc ==
    /\ GRAPH = Path4
    /\ POSITIONS = Layout(GRAPH)
    /\ p_in = 1
    /\ scheme = "nsample"
    /\ pc = "idle"
    /\ NoRequest

NextConc ==
    \/ Next
    \/ OtherStart
    \/ OtherChoose
    \/ OtherWalk
    \/ OtherEnd

SpecConc == InitConc /\ [][NextConc]_vars

\* ================================================================ claims
Returned == result # <<>>

\* A packet trial is not under way.
BetweenTrials == pc \in {"loop", "returned", "rendered"}

RECURSIVE SumOver(_, _)
SumOver(f, S) ==
    IF S = {} THEN 0
    ELSE LET n == CHOOSE m \in S : TRUE IN f[n] + SumOver(f, S \ {n})

Total(f) == SumOver(f, DOMAIN f)

\* C1: once simulate_transmissions has returned, the victim's times_used is
\* 0, whatever the topology, the attackers passed, p and num_packets.
C1_VictimNeverUsed == Returned => times_used[target_node] = 0

\* A run of at least two packets returned, the selected attackers' paths led
\* through a neighbour of the victim, and the victim is still unused.
C1_Witness ==
    /\ pc = "returned"
    /\ packets_done >= 2
    /\ \E n \in NodesOf(graph) : {n, target_node} \in EdgesOf(graph) /\ edge_used[{n, target_node}] >= 2
    /\ times_used[target_node] = 0

\* C2: a call whose attacker list is empty once the victim is removed never
\* returns a result (it is rejected before any trial, for every num_packets),
\* and the victim is never the source of a packet.
C2_EmptyAttackersRejected ==
    /\ (pc # "idle" /\ attacking_nodes = <<>>) => ~Returned
    /\ (attacker_node # None) => attacker_node # target_node

\* C3: after every completed packet trial, and in the returned statistics,
\* nappend_overhead = 4 * intermediate_routers.
C3_NappendIsFourPerRouter ==
    /\ BetweenTrials => nappend_overhead = 4 * intermediate_routers
    /\ Returned => result[1].nappend_overhead = 4 * result[1].intermediate_routers

\* A run returned after walks that crossed at least three nodes.
C3_Witness ==
    /\ pc = "returned"
    /\ result[1].intermediate_routers >= 3
    /\ result[1].nappend_overhead >= 12

\* C4: every returned result has nsample_overhead = 4 * packets_sent and
\* esample_overhead = 9 * packets_sent, packets_sent being the number of
\* trials that ran.
C4_SamplingOverheadPerPacket ==
    Returned =>
        /\ result[1].packets_sent = packets_done
        /\ result[1].nsample_overhead = 4 * result[1].packets_sent
        /\ result[1].esample_overhead = 9 * result[1].packets_sent

\* A run of two packets returned with the overheads 8 and 18.
C4_Witness ==
    /\ pc = "returned"
    /\ result[1].packets_sent = 2
    /\ result[1].nsample_overhead = 8
    /\ result[1].esample_overhead = 18

TrialCompletes == pc = "walk" /\ pc' = "loop"

\* The walk positions of the current packet whose draw was below p.
Passing == {i \in 1..Len(draws) : draws[i] < p}

SetMax(S) == CHOOSE i \in S : \A j \in S : j <= i

\* C6: a packet trial raises the sum of times_marked by at most 1, and by 1
\* only if a node on its walk drew below p; no other step of a run changes
\* a mark, so the sum never exceeds the number of packets processed.
C6_AtMostOneMarkPerPacket ==
    [][pc' # "idle" =>
         /\ \A n \in DOMAIN times_marked : times_marked'[n] >= times_marked[n]
         /\ Total(times_marked') - Total(times_marked) \in {0, 1}
         /\ Total(times_marked') > Total(times_marked) =>
                TrialCompletes /\ Passing # {}
         /\ Total(times_marked') <= packets_done']_vars

\* Two packets were processed with 0 < p < 1 and exactly one of them left a
\* mark.
C6_Witness ==
    /\ pc = "returned"
    /\ 0 < p /\ p < PScale
    /\ packets_done = 2
    /\ Total(times_marked) = 1

WalkTable ==
    [G \in Topologies |->
        [t \in NodesOf(G) |->
            [a \in NodesOf(G) |->
                LET route == shortest_path(G, a, t)
                IN  SubSeq(route, 1, Len(route) - 1)]]]

\* The nodes within `hops` steps of the set `seen`, by repeated expansion.
RECURSIVE Within(_, _, _)
Within(G, seen, hops) ==
    IF hops = 0 THEN seen
    ELSE Within(G, seen \cup UNION {{G[u][k] : k \in 1..Len(G[u])} : u \in seen},
                hops - 1)

\* The hop distance from a to b, None when b cannot be reached.
Dist(G, a, b) ==
    LET n == Cardinality(NodesOf(G))
        near == {h \in 0..n : b \in Within(G, {a}, h)}
    IN  IF near = {} THEN None ELSE CHOOSE h \in near : \A g \in near : h <= g

DistTable ==
    [G \in AllTopologies |->
        [a \in NodesOf(G) |-> [b \in NodesOf(G) |-> Dist(G, a, b)]]]

\* Sum over the nodes of S of (times chosen) * weight[a].
RECURSIVE ChoiceSum(_, _)
ChoiceSum(weight, S) ==
    IF S = {} THEN 0
    ELSE LET a == CHOOSE m \in S : TRUE
         IN  chosen[a] * weight[a] + ChoiceSum(weight, S \ {a})

\* How often the walk w passes node n.
Visits(w, n) == Cardinality({i \in 1..Len(w) : w[i] = n})

\* C8: with p = 0 no node is ever marked, in any state of the run; and the
\* traversal counters and the three overhead totals are fixed by the
\* attacker choices alone (no draw and no p enters them).
C8_NoMarksAtZero ==
    [][/\ (pc' # "idle" /\ p' = 0) =>
            \A n \in DOMAIN times_marked' : times_marked'[n] = 0
       /\ (pc = "loop" /\ pc' = "returned") =>
            /\ \A n \in DOMAIN times_used :
                   times_used'[n] =
                       chosen[n]
                           + ChoiceSum([a \in DOMAIN chosen |->
                                           Visits(WalkTable[graph][target_node][a], n)],
                                       Range(attacking_nodes))
            /\ result'[1].intermediate_routers =
                   ChoiceSum([a \in DOMAIN chosen |->
                                 Len(WalkTable[graph][target_node][a])],
                             Range(attacking_nodes))
            /\ result'[1].nappend_overhead = 4 * result'[1].intermediate_routers
            /\ result'[1].nsample_overhead = 4 * Total(chosen)
            /\ result'[1].esample_overhead = 9 * Total(chosen)]_vars

\* With p = 0, two packets crossed at least three nodes, every draw was 0
\* (the smallest value there is) and no node is marked.
C8_Witness ==
    /\ pc = "returned"
    /\ p = 0
    /\ packets_done = 2
    /\ intermediate_routers >= 3
    /\ \A i \in 1..Len(draws) : draws[i] = 0
    /\ \A n \in DOMAIN times_marked : times_marked[n] = 0

\* C9: the node a packet trial marks is the last one in walk order among the
\* nodes whose draw was below p; when none passed, no node is marked.
C9_LastPassingNodeIsMarked ==
    [][TrialCompletes =>
         times_marked' =
             IF Passing = {} THEN times_marked
             ELSE [times_marked EXCEPT ![path[SetMax(Passing)]] = @ + 1]]_vars

\* The first packet's walk had two passing nodes followed by a failing one:
\* the second node is marked, the first and the third are not.
C9_Witness ==
    /\ pc = "loop"
    /\ packets_done = 1
    /\ Len(draws) = 3
    /\ Passing = {1, 2}
    /\ times_marked[path[2]] = 1
    /\ times_marked[path[1]] = 0
    /\ times_marked[path[3]] = 0

\* Position of node n in graph.nodes().
EnumIndex(G, n) == CHOOSE i \in 1..Len(NodeList(G)) : NodeList(G)[i] = n

MarkedSet == {n \in DOMAIN times_marked : times_marked[n] # 0}

\* C10: the reconstructed chain is exactly the nodes with a non-zero
\* times_marked, each once, ascending by times_marked with ties in the
\* graph's enumeration order, then the victim; one edge per consecutive
\* pair, so with no marked node the chain is the victim alone and there is
\* no edge.
C10_ChainSortedByMarks ==
    pc = "rendered" =>
        LET k == Len(ordered_nodes) - 1 IN
        /\ k >= 0
        /\ ordered_nodes[k + 1] = target_node
        /\ {ordered_nodes[i] : i \in 1..k} = MarkedSet
        /\ k = Cardinality(MarkedSet)
        /\ \A i, j \in 1..k :
               i < j =>
                   \/ times_marked[ordered_nodes[i]] < times_marked[ordered_nodes[j]]
                   \/ /\ times_marked[ordered_nodes[i]] = times_marked[ordered_nodes[j]]
                      /\ EnumIndex(graph, ordered_nodes[i]) < EnumIndex(graph, ordered_nodes[j])
        /\ Len(edge_x) = 3 * k /\ Len(edge_y) = 3 * k
        /\ \A i \in 1..k :
               /\ edge_x[3 * i - 2] = POSITIONS[ordered_nodes[i]][1]
               /\ edge_x[3 * i - 1] = POSITIONS[ordered_nodes[i + 1]][1]
               /\ edge_y[3 * i - 2] = POSITIONS[ordered_nodes[i]][2]
               /\ edge_y[3 * i - 1] = POSITIONS[ordered_nodes[i + 1]][2]
        /\ MarkedSet = {} => ordered_nodes = <<target_node>> /\ edge_x = <<>>

\* A chain of three marked nodes was rebuilt: two with equal marks, the one
\* enumerated first ahead, then a node enumerated before both with more
\* marks, then the victim.
C10_Witness ==
    /\ pc = "rendered"
    /\ Len(ordered_nodes) = 4
    /\ times_marked[ordered_nodes[1]] = times_marked[ordered_nodes[2]]
    /\ times_marked[ordered_nodes[2]] < times_marked[ordered_nodes[3]]
    /\ ordered_nodes[3] < ordered_nodes[1]
    /\ ordered_nodes[1] < ordered_nodes[2]
    /\ ordered_nodes[4] = target_node

\* C11: when the attacker chosen for a packet cannot reach the victim, the
\* run ends there with the path error: the packet is not counted as done,
\* no counter moves, no SimulationResult exists, and the only step left is
\* the callback handing the error back.
C11_UnreachableAborts ==
    [][/\ (chosen' # chosen /\ pc = "loop"
            /\ DistTable[graph][attacker_node'][target_node] = None)
           => (/\ pc' = "error"
               /\ error' = "NetworkXNoPath"
               /\ result' = <<>>
               /\ packets_done' = packets_done
               /\ counters' = counters)
       /\ (pc = "error") => (pc' = "idle" /\ result = <<>> /\ result' = <<>>)]_vars

\* An unreachable attacker was chosen after an earlier packet went through.
C11_Witness ==
    /\ pc = "error"
    /\ error = "NetworkXNoPath"
    /\ packets_done = 1
    /\ DistTable[graph][attacker_node][target_node] = None

OtherSteps == other'.pc # other.pc \/ other'.idx # other.idx

\* What a call holds when it ran alone: the attacker once more than the walk
\* passes it, every walked node and edge once per passage.
AloneUsed(G, victim, a) ==
    [n \in NodesOf(G) |->
        (IF n = a THEN 1 ELSE 0) + Visits(WalkTable[G][victim][a], n)]

AloneEdges(G, victim, a) ==
    LET route == shortest_path(G, a, victim) IN
    [e \in EdgesOf(G) |->
        Cardinality({i \in 1..(Len(route) - 1) : {route[i], route[i + 1]} = e})]

AloneTable ==
    [G \in Topologies |->
        [v \in NodesOf(G) |->
            [a \in NodesOf(G) |->
                [used |-> AloneUsed(G, v, a), edges |-> AloneEdges(G, v, a)]]]]

\* C13: with a second call interleaved at any step, no step of either call
\* changes what the other call's working object holds; the first call's
\* marks move only by its own packet's last passing node, and what it holds
\* when it returns, and what the second call holds when it ends, is what
\* each holds when it runs alone with the same choices and draws.
C13_NoRaceOnCounters ==
    [][/\ OtherSteps =>
            /\ UNCHANGED <<counters, caller_graph, result, packets_done>>
       /\ ~OtherSteps => other' = other
       /\ TrialCompletes =>
            times_marked' =
                IF Passing = {} THEN times_marked
                ELSE [times_marked EXCEPT ![path[SetMax(Passing)]] = @ + 1]
       /\ (pc = "loop" /\ pc' = "returned") =>
            /\ \A n \in DOMAIN times_used :
                   times_used'[n] =
                       chosen'[n]
                           + ChoiceSum([a \in DOMAIN chosen |->
                                           Visits(WalkTable[graph][target_node][a], n)],
                                       DOMAIN chosen)
            /\ Total(edge_used') = intermediate_routers'
            /\ Total(times_marked') <= num_packets
       /\ (other.pc = "walk" /\ other'.pc = "done") =>
            LET a == other'.attacker_node
                v == other'.target_node
            IN  /\ other'.times_used = AloneTable[GRAPH][v][a].used
                /\ other'.edge_used = AloneTable[GRAPH][v][a].edges
                /\ other'.times_marked =
                       [n \in NodesOf(GRAPH) |->
                           IF n = other'.path[Len(other'.path) - 1] THEN 1 ELSE 0]]_vars

\* The first call returned two marked packets while the second was in the
\* middle of its walk.
C13_Witness ==
    /\ pc = "returned"
    /\ Total(times_marked) = 2
    /\ other.pc = "walk"
    /\ other.idx = 2

\* C14: a run with num_packets = 0 returns a working graph on which every
\* node's times_used and times_marked and every edge's times_used is 0, and
\* a SimulationResult whose packets_sent, intermediate_routers and three
\* overhead totals are 0.
C14_ZeroPacketsAllZero ==
    (Returned /\ num_packets = 0) =>
        /\ \A n \in NodesOf(graph) : times_used[n] = 0 /\ times_marked[n] = 0
        /\ \A e \in EdgesOf(graph) : edge_used[e] = 0
        /\ result[1].packets_sent = 0
        /\ result[1].intermediate_routers = 0
        /\ result[1].nappend_overhead = 0
        /\ result[1].nsample_overhead = 0
        /\ result[1].esample_overhead = 0

\* A run of no packet returned with attackers to choose from and p = 1.
C14_Witness ==
    /\ pc = "returned"
    /\ num_packets = 0
    /\ Len(attacking_nodes) = 2
    /\ p = PScale

\* The last node of the walk from a to the victim, None for an empty walk.
LastWalked(G, victim, a) ==
    LET w == WalkTable[G][victim][a] IN IF w = <<>> THEN None ELSE w[Len(w)]

\* C15: a p outside [0, 1] raises nothing (the only error left is the one of
\* an empty attacker list) and the run is the run of the clamped value:
\* below 0 the simulation holds p = 0 and no node is ever marked, above 1 it
\* holds p = 1 and every packet marks the last node of its walk; the
\* traversal counters are those the attacker choices give for any p.
C15_OutOfRangeActsClamped ==
    (pc # "idle" /\ (p_in < 0 \/ p_in > PScale)) =>
        /\ error # "none" => attacking_nodes = <<>>
        /\ p = (IF p_in < 0 THEN 0 ELSE PScale)
        /\ (p_in < 0 /\ BetweenTrials) =>
               \A n \in DOMAIN times_marked : times_marked[n] = 0
        /\ (p_in > PScale /\ BetweenTrials) =>
               \A n \in DOMAIN times_marked :
                   times_marked[n] =
                       ChoiceSum([a \in DOMAIN chosen |->
                                     IF LastWalked(graph, target_node, a) = n
                                     THEN 1 ELSE 0],
                                 DOMAIN chosen)
        /\ Returned =>
               \A n \in DOMAIN times_used :
                   times_used[n] =
                       chosen[n]
                           + ChoiceSum([a \in DOMAIN chosen |->
                                           Visits(WalkTable[graph][target_node][a], n)],
                                       DOMAIN chosen)

\* A run with p above 1 returned after two packets from different attackers,
\* marked at two different nodes.
C15_Witness ==
    /\ p_in > PScale
    /\ pc = "returned"
    /\ \E a, b \in Range(attacking_nodes) : a # b /\ chosen[a] = 1 /\ chosen[b] = 1
    /\ Cardinality({n \in DOMAIN times_marked : times_marked[n] = 1}) = 2

\* The run is under way with attackers to choose from.
Running == pc \in {"loop", "walk"} /\ attacking_nodes # <<>>

\* A bound on what is left of the run: the packets not yet completed, each
\* worth more than the longest walk, less the progress of the current walk.
Measure ==
    LET worth == Cardinality(NodesOf(graph)) + 2
        left == (num_packets - packets_done) * worth
    IN  IF pc = "loop" THEN left
        ELSE IF pc = "walk" THEN left - 1 - idx
        ELSE 0 - 1

\* C16: on a connected topology with attackers to choose from, a run ends
\* after exactly num_packets trials: while it is under way every attacker
\* that can be chosen has a walk to start, every step brings the run nearer
\* to the return and none ends it in an error, each trial chooses an
\* attacker once and is not begun again, and the return comes with
\* packets_done = num_packets = packets_sent.
C16_ExactlyNumPacketsTrials ==
    [][/\ Running =>
            /\ (pc = "loop" /\ LoopContinues(packets_done, num_packets)) =>
                   \A a \in Range(attacking_nodes) :
                       WalkTable[graph][target_node][a] # <<>>
            /\ Measure' < Measure
            /\ Measure' >= 0 - 1
            /\ pc' \in {"loop", "walk", "returned"}
       /\ (pc \in {"loop", "walk"} /\ chosen' # chosen) =>
            /\ pc = "loop" /\ pc' = "walk"
            /\ Total(chosen') = Total(chosen) + 1
            /\ Total(chosen) = packets_done
       /\ (pc' = "returned") =>
            /\ packets_done' = num_packets
            /\ Total(chosen') = num_packets
            /\ result'[1].packets_sent = num_packets]_vars

\* A run of two packets from a list of two attackers returned.
C16_Witness ==
    /\ pc = "returned"
    /\ num_packets = 2
    /\ packets_done = 2
    /\ Len(attacking_nodes) = 2
    /\ result[1].packets_sent = 2

\* C17: on every page the callback that holds a simulation result goes on
\* without an error, and what it renders is a chain that ends at the victim.
C17_EveryPageRebuilds ==
    /\ Returned => error = "none"
    /\ pc = "rendered" =>
        /\ ordered_nodes # <<>>
        /\ ordered_nodes[Len(ordered_nodes)] = target_node

\* The hop distance to the victim of every attacker chosen so far, summed.
HopsChosen ==
    ChoiceSum([a \in DOMAIN chosen |->
                  IF chosen[a] = 0 THEN 0 ELSE DistTable[graph][a][target_node]],
              DOMAIN chosen)

C20_RebuildReadsOnly ==
    [][(pc = "returned" /\ pc' = "rendered") =>
         /\ times_used' = times_used
         /\ edge_used' = edge_used
         /\ times_marked' = times_marked
         /\ result' = result
         /\ fig' = fig
         /\ fig.edge_visible
         /\ fig_2' # fig
         /\ ~fig_2'.edge_visible
         /\ fig_2'.traces = Append(fig.traces, "node_sampling_edge_trace")]_vars

\* A chain through two marked nodes was drawn on the copy and the figure
\* handed in still shows its edge trace.
C20_Witness ==
    /\ pc = "rendered"
    /\ Len(ordered_nodes) = 3
    /\ fig.edge_visible
    /\ Len(fig.traces) = 2
    /\ Len(fig_2.traces) = 3

\* C22: after every completed packet trial, and in what the run returns, the
\* times_used of all edges sum to intermediate_routers and the times_used of
\* all nodes sum to intermediate_routers plus the packets processed so far.
C22_UseSumsMatchRouters ==
    BetweenTrials =>
        /\ Total(edge_used) = intermediate_routers
        /\ Total(times_used) = intermediate_routers + packets_done

\* One packet of a run of two has been walked over three hops.
C22_Witness ==
    /\ pc = "loop"
    /\ num_packets = 2
    /\ packets_done = 1
    /\ intermediate_routers = 3
    /\ Total(edge_used) = 3
    /\ Total(times_used) = 4

\* C23: in every state no node is marked more often than it was used; the
\* victim is never marked and a node no packet has used is never marked.
C23_MarkedOnlyIfUsed ==
    /\ \A n \in DOMAIN times_marked : times_marked[n] <= times_used[n]
    /\ target_node # None => times_marked[target_node] = 0
    /\ \A n \in DOMAIN times_marked : times_used[n] = 0 => times_marked[n] = 0

\* A router was marked by both packets that used it, next to a used node
\* that was never marked.
C23_Witness ==
    /\ pc = "returned"
    /\ \E n \in DOMAIN times_marked : times_marked[n] = 2 /\ times_used[n] = 2
    /\ \E n \in DOMAIN times_marked : times_marked[n] = 0 /\ times_used[n] > 0


\* ------------------------------------------------- update_global_state
\* The change-graph page's callback calls update_global_state while the node
\* sampling callback is served by another thread of the server: the module
\* globals are assigned one statement at a time and nothing locks them.

\* watts_strogatz_graph(6, 2, p) with no edge rewired: the ring.
Ring6 ==
    (0 :> <<1, 5>>) @@ (1 :> <<0, 2>>) @@ (2 :> <<1, 3>>) @@ (3 :> <<2, 4>>)
        @@ (4 :> <<3, 5>>) @@ (5 :> <<4, 0>>)

\* The n slider's values that are modelled.
GraphSizes == {5, 6}

\* What GraphParameters(n, 2, p).to_ws_graph() can return.
to_ws_graph(n) == {G \in {Ring5, Rewired5, Ring6, Split6} : Cardinality(NodesOf(G)) = n}

\* nx.is_connected: every node is reached from the first one.
is_connected(G) == Within(G, {NodeList(G)[1]}, Cardinality(NodesOf(G))) = NodesOf(G)

\* What a step of update_global_state leaves alone.
callbackvars == <<p_in, scheme, pc, simvars, counters, packets_done, pktvars,
                  chosen, outvars, caller_graph, other>>

\* update_graph is called with clicks > 0 and enters update_global_state.
update_graph ==
    /\ regen.pc = "none"
    /\ \E n \in GraphSizes : regen' = [pc |-> "graph", n |-> n]
    /\ UNCHANGED <<GRAPH, POSITIONS, callbackvars>>

\* GRAPH_PARAMETERS = ...; GRAPH = GRAPH_PARAMETERS.to_ws_graph()
AssignGraph ==
    /\ regen.pc = "graph"
    /\ GRAPH' \in to_ws_graph(regen.n)
    /\ regen' = [regen EXCEPT !.pc = "layout"]
    /\ UNCHANGED <<POSITIONS, callbackvars>>

\* POSITIONS = nx.spring_layout(GRAPH)
AssignPositions ==
    /\ regen.pc = "layout"
    /\ POSITIONS' = Layout(GRAPH)
    /\ regen' = [regen EXCEPT !.pc = "test"]
    /\ UNCHANGED <<GRAPH, callbackvars>>

\* if not nx.is_connected(GRAPH): continue / else: break
TestConnected ==
    /\ regen.pc = "test"
    /\ regen' = [regen EXCEPT !.pc = IF is_connected(GRAPH) THEN "figure" ELSE "graph"]
    /\ UNCHANGED <<GRAPH, POSITIONS, callbackvars>>

\* FIGURE = create_figure_from_graph(GRAPH, POSITIONS); the callback returns.
AssignFigure ==
    /\ regen.pc = "figure"
    /\ regen' = NoRegen
    /\ UNCHANGED <<GRAPH, POSITIONS, callbackvars>>

\* The reconstruction looks up global_state.POSITIONS for a node of the
\* graph it was handed and the key is not there.
RebuildKeyError ==
    /\ pc = "returned"
    /\ scheme = "nsample"
    /\ ~(Range(OrderedNodes(NodeList(graph), times_marked, target_node))
            \subseteq DOMAIN POSITIONS)
    /\ error' = "KeyError"
    /\ pc' = "error"
    /\ UNCHANGED <<page, other, simvars, counters, packets_done, pktvars,
                   chosen, result, ordered_nodes, edge_x, edge_y, fig, fig_2,
                   caller_graph>>

\* The node sampling page is open on the ring; the graph may be changed
\* while its requests are served.
InitRegen ==
    /\ GRAPH = Ring5
    /\ POSITIONS = Layout(GRAPH)
    /\ p_in = PScale
    /\ scheme = "nsample"
    /\ pc = "idle"
    /\ NoRequest

NextRegen ==
    \/ Next
    \/ RaiseNoPath
    \/ RebuildKeyError
    \/ update_graph
    \/ AssignGraph
    \/ AssignPositions
    \/ TestConnected
    \/ AssignFigure

SpecRegen == InitRegen /\ [][NextRegen]_vars

\* C21: whenever a callback can read the globals, GRAPH is connected and
\* POSITIONS has a position for exactly the nodes of GRAPH, also while
\* update_global_state runs in another callback; and the reconstruction
\* never pairs the graph it copied with positions laid out for another graph
\* (so no position lookup fails).
C21_GlobalsConsistent ==
    /\ is_connected(GRAPH)
    /\ DOMAIN POSITIONS = NodesOf(GRAPH)
    /\ pc = "returned" => POSITIONS = Layout(graph)
    /\ error # "KeyError"

====
